---- MODULE Spec2Model ----
(***************************************************************************)
(* Order-intake conversation engine of the UnidBox Order Copilot:          *)
(* MessageHandler (whatsapp/message_handler.py) driving IntentParser,      *)
(* ProductMatcher and OrderExtractor (ai/*.py).                            *)
(*                                                                         *)
(* Text is modelled as sequences of one-character strings, so that         *)
(* lower(), strip(), startswith(), replace(), split(), int() and the       *)
(* substring tests of the code are computed rather than assumed.           *)
(* Money is in cents; a score is an exact fraction [num, den].             *)
(***************************************************************************)
EXTENDS Integers, Sequences, FiniteSets, TLC

(***************************************************************************)
(* Bounds of the model.                                                    *)
(***************************************************************************)
\* handlers suspended on the completion service at the same time
MaxInflight == 1
\* entries of a session's pending_items list
MaxPending == 1
\* distinct order ids _generate_order_id can return
NumOrderIds == 1

(***************************************************************************)
(* Python string operations.                                               *)
(***************************************************************************)
UpperLetters == <<"A","B","C","D","E","F","G","H","I","J","K","L","M",
                  "N","O","P","Q","R","S","T","U","V","W","X","Y","Z">>
LowerLetters == <<"a","b","c","d","e","f","g","h","i","j","k","l","m",
                  "n","o","p","q","r","s","t","u","v","w","x","y","z">>
Digits == <<"0","1","2","3","4","5","6","7","8","9">>

IndexIn(c, alphabet) ==
    IF \E i \in 1..Len(alphabet) : alphabet[i] = c
    THEN CHOOSE i \in 1..Len(alphabet) : alphabet[i] = c
    ELSE 0

IsUpper(c) == IndexIn(c, UpperLetters) > 0
IsLower(c) == IndexIn(c, LowerLetters) > 0
IsAlpha(c) == IsUpper(c) \/ IsLower(c)
IsDigit(c) == IndexIn(c, Digits) > 0
IsSpace(c) == c = " "
DigitVal(c) == IndexIn(c, Digits) - 1

LowerChar(c) == IF IsUpper(c) THEN LowerLetters[IndexIn(c, UpperLetters)] ELSE c
UpperChar(c) == IF IsLower(c) THEN UpperLetters[IndexIn(c, LowerLetters)] ELSE c

\* str.lower()
Lower(s) == [i \in 1..Len(s) |-> LowerChar(s[i])]

\* str.title(): a letter is upper-cased after a non-letter, lower-cased after a letter
Title(s) ==
    [i \in 1..Len(s) |->
        IF i = 1 \/ ~IsAlpha(s[i-1]) THEN UpperChar(s[i]) ELSE LowerChar(s[i])]

\* str.strip()
Strip(s) ==
    LET keep == {i \in 1..Len(s) : ~IsSpace(s[i])}
    IN  IF keep = {} THEN <<>>
        ELSE LET lo == CHOOSE i \in keep : \A j \in keep : i <= j
                 hi == CHOOSE i \in keep : \A j \in keep : i >= j
             IN  SubSeq(s, lo, hi)

\* str.startswith(prefix)
StartsWith(s, prefix) ==
    Len(s) >= Len(prefix) /\ SubSeq(s, 1, Len(prefix)) = prefix

\* sub in s
Contains(s, sub) ==
    \E i \in 0..(Len(s) - Len(sub)) : SubSeq(s, i + 1, i + Len(sub)) = sub

\* any(kw in s for kw in kws)
ContainsAny(s, kws) == \E i \in 1..Len(kws) : Contains(s, kws[i])

\* str.replace(pat, ""): every non-overlapping occurrence removed, left to right
RECURSIVE ReplaceAll(_, _)
ReplaceAll(s, pat) ==
    IF Len(s) = 0 \/ Len(pat) = 0 THEN s
    ELSE IF StartsWith(s, pat) THEN ReplaceAll(SubSeq(s, Len(pat) + 1, Len(s)), pat)
    ELSE <<s[1]>> \o ReplaceAll(Tail(s), pat)

\* set(s.split()): the maximal runs of non-whitespace characters
Words(s) ==
    {SubSeq(s, i, j) : <<i, j>> \in
        {p \in (1..Len(s)) \X (1..Len(s)) :
            /\ p[1] <= p[2]
            /\ \A k \in p[1]..p[2] : ~IsSpace(s[k])
            /\ (p[1] = 1 \/ IsSpace(s[p[1] - 1]))
            /\ (p[2] = Len(s) \/ IsSpace(s[p[2] + 1]))}}

\* the value of a run of decimal digits
RECURSIVE DigitsValue(_)
DigitsValue(s) ==
    IF Len(s) = 0 THEN 0
    ELSE 10 * DigitsValue(SubSeq(s, 1, Len(s) - 1)) + DigitVal(s[Len(s)])

\* int(s): [ok |-> FALSE] stands for ValueError.  Python accepts surrounding
\* whitespace, one sign, and single underscores between digits.
ParseInt(s) ==
    LET t    == Strip(s)
        neg  == Len(t) > 0 /\ t[1] = "-"
        body == IF Len(t) > 0 /\ t[1] \in {"+", "-"} THEN Tail(t) ELSE t
        wellFormed ==
            /\ Len(body) > 0
            /\ \A i \in 1..Len(body) : IsDigit(body[i]) \/ body[i] = "_"
            /\ IsDigit(body[1]) /\ IsDigit(body[Len(body)])
            /\ \A i \in 1..(Len(body) - 1) : ~(body[i] = "_" /\ body[i+1] = "_")
        mag  == DigitsValue(SelectSeq(body, IsDigit))
    IN  IF wellFormed THEN [ok |-> TRUE, val |-> IF neg THEN 0 - mag ELSE mag]
        ELSE [ok |-> FALSE, val |-> 0]

\* re.search(r'(\d+)...', s): the first maximal run of digits, as <<n>>, or <<>>
FirstNumber(s) ==
    LET starts == {i \in 1..Len(s) : IsDigit(s[i])}
    IN  IF starts = {} THEN <<>>
        ELSE LET lo == CHOOSE i \in starts : \A j \in starts : i <= j
                 ends == {j \in lo..Len(s) : \A k \in lo..j : IsDigit(s[k])}
                 hi == CHOOSE j \in ends : \A k \in ends : j >= k
             IN  <<DigitsValue(SubSeq(s, lo, hi))>>

(***************************************************************************)
(* Optional values: None is the empty tuple, a value v is <<v>>.           *)
(***************************************************************************)
None == <<>>
Some(v) == <<v>>
IsNone(o) == o = <<>>
\* Python truthiness of an Optional[str]: neither None nor ""
TruthyStr(o) == o /= <<>> /\ o[1] /= <<>>

(***************************************************************************)
(* Exact fractions for the float scores.                                   *)
(***************************************************************************)
RECURSIVE GCD(_, _)
GCD(a, b) == IF b = 0 THEN a ELSE GCD(b, a % b)
Frac(n, d) == LET g == GCD(n, d) IN [num |-> n \div g, den |-> d \div g]
FracLess(p, q) == p.num * q.den < q.num * p.den
FracLeq(p, q) == p.num * q.den <= q.num * p.den
FracAdd(p, q) == Frac(p.num * q.den + q.num * p.den, p.den * q.den)
FracMul(p, q) == Frac(p.num * q.num, p.den * q.den)
FracMin(p, q) == IF FracLeq(p, q) THEN p ELSE q
Zero == Frac(0, 1)
One == Frac(1, 1)

(***************************************************************************)
(* ProductMatcher (ai/product_matcher.py).                                 *)
(***************************************************************************)
KNOWN_BRANDS ==
    << [key |-> <<"a","c","o","r","n">>, name |-> <<"A","c","o","r","n">>],
       [key |-> <<"s","p","i","n">>, name |-> <<"S","p","i","n">>],
       [key |-> <<"f","a","n","c","o">>, name |-> <<"F","a","n","c","o">>],
       [key |-> <<"c","r","e","s","t","a","r">>, name |-> <<"C","r","e","s","t","a","r">>],
       [key |-> <<"a","l","a","s","k","a">>, name |-> <<"A","l","a","s","k","a">>],
       [key |-> <<"t","e","c","n","o">>, name |-> <<"T","e","c","n","o">>],
       [key |-> <<"e","f">>, name |-> <<"E","F">>],
       [key |-> <<"k","a">>, name |-> <<"K","A">>],
       [key |-> <<"p","o","z","z","i">>, name |-> <<"P","o","z","z","i">>],
       [key |-> <<"w","o","r","x">>, name |-> <<"W","O","R","X">>],
       [key |-> <<"m","a","k","i","t","a">>, name |-> <<"M","a","k","i","t","a">>] >>

CATEGORY_KEYWORDS ==
    << [name |-> <<"C","e","i","l","i","n","g"," ","F","a","n","s">>,
        keywords |-> << <<"c","e","i","l","i","n","g"," ","f","a","n">>,
                      <<"f","a","n">>,
                      <<"d","c"," ","f","a","n">>,
                      <<"w","i","f","i"," ","f","a","n">> >>],
       [name |-> <<"R","a","n","g","e"," ","H","o","o","d","s">>,
        keywords |-> << <<"h","o","o","d">>,
                      <<"c","h","i","m","n","e","y">>,
                      <<"r","a","n","g","e"," ","h","o","o","d">>,
                      <<"k","i","t","c","h","e","n"," ","h","o","o","d">> >>],
       [name |-> <<"H","o","b","s"," ","&"," ","S","t","o","v","e","s">>,
        keywords |-> << <<"h","o","b">>,
                      <<"s","t","o","v","e">>,
                      <<"c","o","o","k","t","o","p">>,
                      <<"g","a","s"," ","h","o","b">>,
                      <<"i","n","d","u","c","t","i","o","n">> >>],
       [name |-> <<"K","i","t","c","h","e","n"," ","T","a","p","s">>,
        keywords |-> << <<"k","i","t","c","h","e","n"," ","t","a","p">>,
                      <<"s","i","n","k"," ","t","a","p">>,
                      <<"f","a","u","c","e","t">> >>],
       [name |-> <<"B","a","s","i","n"," ","T","a","p","s">>,
        keywords |-> << <<"b","a","s","i","n"," ","t","a","p">>,
                      <<"b","a","t","h","r","o","o","m"," ","t","a","p">>,
                      <<"b","a","s","i","n"," ","m","i","x","e","r">> >>],
       [name |-> <<"P","o","w","e","r"," ","T","o","o","l","s">>,
        keywords |-> << <<"d","r","i","l","l">>,
                      <<"p","o","w","e","r"," ","t","o","o","l">>,
                      <<"g","r","i","n","d","e","r">>,
                      <<"s","a","w">>,
                      <<"w","a","s","h","e","r">>,
                      <<"b","l","o","w","e","r">> >>],
       [name |-> <<"K","i","t","c","h","e","n"," ","S","i","n","k","s">>,
        keywords |-> << <<"s","i","n","k">>,
                      <<"k","i","t","c","h","e","n"," ","s","i","n","k">> >>],
       [name |-> <<"B","a","t","h","r","o","o","m"," ","F","i","x","t","u","r","e","s">>,
        keywords |-> << <<"b","a","t","h","r","o","o","m">>,
                      <<"s","h","o","w","e","r">>,
                      <<"t","o","i","l","e","t">> >>],
       [name |-> <<"W","a","t","e","r"," ","H","e","a","t","e","r","s">>,
        keywords |-> << <<"w","a","t","e","r"," ","h","e","a","t","e","r">>,
                      <<"h","e","a","t","e","r">> >>] >>

\* CATEGORY_KEYWORDS.get(category, [])
KeywordsOf(category) ==
    IF \E i \in 1..Len(CATEGORY_KEYWORDS) : CATEGORY_KEYWORDS[i].name = category
    THEN CATEGORY_KEYWORDS[CHOOSE i \in 1..Len(CATEGORY_KEYWORDS) :
                               CATEGORY_KEYWORDS[i].name = category].keywords
    ELSE <<>>

\* first brand of KNOWN_BRANDS whose key occurs in the text, or None
DetectBrand(text) ==
    LET hits == {i \in 1..Len(KNOWN_BRANDS) : Contains(text, KNOWN_BRANDS[i].key)}
    IN  IF hits = {} THEN None
        ELSE Some(KNOWN_BRANDS[CHOOSE i \in hits : \A j \in hits : i <= j].name)

\* first category of CATEGORY_KEYWORDS with a keyword in the text, or None
DetectCategory(text) ==
    LET hits == {i \in 1..Len(CATEGORY_KEYWORDS) :
                    ContainsAny(text, CATEGORY_KEYWORDS[i].keywords)}
    IN  IF hits = {} THEN None
        ELSE Some(CATEGORY_KEYWORDS[CHOOSE i \in hits : \A j \in hits : i <= j].name)

\* difflib.SequenceMatcher.find_longest_match without junk: the longest block
\* a[i..i+k-1] = b[j..j+k-1] inside a[alo..ahi], b[blo..bhi] (1-based,
\* inclusive); among the longest the earliest in a, then the earliest in b.
RECURSIVE RunLength(_, _, _, _, _, _)
RunLength(a, b, i, j, ahi, bhi) ==
    IF i <= ahi /\ j <= bhi /\ a[i] = b[j]
    THEN 1 + RunLength(a, b, i + 1, j + 1, ahi, bhi)
    ELSE 0

find_longest_match(a, b, alo, ahi, blo, bhi) ==
    LET cand == {<<i, j>> \in (alo..ahi) \X (blo..bhi) : a[i] = b[j]}
        len(p) == RunLength(a, b, p[1], p[2], ahi, bhi)
    IN  IF cand = {} THEN [i |-> alo, j |-> blo, k |-> 0]
        ELSE LET best == CHOOSE p \in cand : \A q \in cand :
                            \/ len(p) > len(q)
                            \/ len(p) = len(q) /\ p[1] < q[1]
                            \/ len(p) = len(q) /\ p[1] = q[1] /\ p[2] <= q[2]
             IN  [i |-> best[1], j |-> best[2], k |-> len(best)]

\* the total size of SequenceMatcher.get_matching_blocks
RECURSIVE MatchingSize(_, _, _, _, _, _)
MatchingSize(a, b, alo, ahi, blo, bhi) ==
    IF alo > ahi \/ blo > bhi THEN 0
    ELSE LET m == find_longest_match(a, b, alo, ahi, blo, bhi)
         IN  IF m.k = 0 THEN 0
             ELSE m.k + MatchingSize(a, b, alo, m.i - 1, blo, m.j - 1)
                      + MatchingSize(a, b, m.i + m.k, ahi, m.j + m.k, bhi)

\* SequenceMatcher(None, a, b).ratio() = 2*M/T, and 1.0 when both are empty
ratio(a, b) ==
    IF Len(a) + Len(b) = 0 THEN One
    ELSE Frac(2 * MatchingSize(a, b, 1, Len(a), 1, Len(b)), Len(a) + Len(b))

NAME_WEIGHT == Frac(5, 10)
WORD_WEIGHT == Frac(3, 10)
BRAND_BONUS == Frac(3, 10)
CATEGORY_BONUS == Frac(2, 10)
NAME_FLOOR == Frac(3, 10)

\* the four terms of _score_product
NameTerm(product, query) ==
    LET name_score == ratio(query, Lower(product.clean_name))
    IN  IF FracLess(NAME_FLOOR, name_score) THEN FracMul(name_score, NAME_WEIGHT) ELSE Zero

WordTerm(product, query) ==
    LET query_words  == Words(query)
        common_words == query_words \cap Words(Lower(product.clean_name))
        n == IF Cardinality(query_words) > 1 THEN Cardinality(query_words) ELSE 1
    IN  IF common_words /= {}
        THEN FracMul(Frac(Cardinality(common_words), n), WORD_WEIGHT)
        ELSE Zero

BrandTerm(product, brand) ==
    IF TruthyStr(brand) /\ Contains(Lower(product.name), Lower(brand[1]))
    THEN BRAND_BONUS ELSE Zero

CategoryTerm(product, category) ==
    IF TruthyStr(category) /\ ContainsAny(Lower(product.name), KeywordsOf(category[1]))
    THEN CATEGORY_BONUS ELSE Zero

_score_product(product, query, brand, category) ==
    FracMin(FracAdd(FracAdd(NameTerm(product, query), WordTerm(product, query)),
                    FracAdd(BrandTerm(product, brand), CategoryTerm(product, category))),
            One)

_to_matched_product(product, score) ==
    [product_id  |-> product.item_id,
     name        |-> product.name,
     clean_name  |-> product.clean_name,
     price       |-> product.price,
     brand       |-> DetectBrand(Lower(product.name)),
     category    |-> DetectCategory(Lower(product.name)),
     match_score |-> score]

\* the order sorted(...)[::-1] would give: falling score, equal scores in
\* reverse catalog order
RECURSIVE SortByScore_ties_reversed(_, _)
SortByScore_ties_reversed(idx, score) ==
    IF idx = {} THEN <<>>
    ELSE LET top == CHOOSE i \in idx : \A j \in idx :
                        \/ FracLess(score[j], score[i])
                        \/ score[j] = score[i] /\ i >= j
         IN  <<top>> \o SortByScore_ties_reversed(idx \ {top}, score)

\* list.sort(key=score, reverse=True) is stable: the indices in idx ordered by
\* falling score, equal scores in catalog order
RECURSIVE SortByScore(_, _)
SortByScore(idx, score) ==
    IF idx = {} THEN <<>>
    ELSE LET top == CHOOSE i \in idx : \A j \in idx :
                        \/ FracLess(score[j], score[i])
                        \/ score[j] = score[i] /\ i <= j
         IN  <<top>> \o SortByScore(idx \ {top}, score)

DEFAULT_MIN_SCORE == Frac(3, 10)

\* lines 176-184 of match: the first max_results of the sorted indices as
\* MatchedProducts, and the number of products that passed min_score
TopMatches(cat, score, sorted, max_results) ==
    [matches     |-> [n \in 1..(IF Len(sorted) < max_results THEN Len(sorted)
                                ELSE max_results) |->
                         _to_matched_product(cat[sorted[n]], score[sorted[n]])],
     total_found |-> Len(sorted)]

\* lines 150-174 of match: keep the scores at or above min_score and sort
Ranked(cat, score, max_results, min_score) ==
    TopMatches(cat, score,
               SortByScore({i \in 1..Len(cat) : FracLeq(min_score, score[i])}, score),
               max_results)

\* ProductMatcher.match: the MatchedProduct list and total_found
match(cat, query, brand, category, max_results, min_score) ==
    IF cat = <<>> THEN [matches |-> <<>>, total_found |-> 0]
    ELSE
    LET query_lower       == Strip(Lower(query))
        detected_brand    == IF TruthyStr(brand) THEN brand ELSE DetectBrand(query_lower)
        detected_category == IF TruthyStr(category) THEN category
                             ELSE DetectCategory(query_lower)
    IN  Ranked(cat,
               [i \in 1..Len(cat) |->
                   _score_product(cat[i], query_lower, detected_brand, detected_category)],
               max_results, min_score)

\* ProductMatcher.get_product_by_id: the first record with that item_id, or None
get_product_by_id(cat, product_id) ==
    LET hits == {i \in 1..Len(cat) : cat[i].item_id = product_id}
    IN  IF hits = {} THEN None
        ELSE Some(_to_matched_product(cat[CHOOSE i \in hits : \A j \in hits : i <= j], One))

(***************************************************************************)
(* IntentParser (ai/intent_parser.py).                                     *)
(***************************************************************************)
IntentTypes == {"order_inquiry", "price_check", "stock_check", "order_status",
                "general_question", "unclear"}

price_words == << <<"p","r","i","c","e">>, <<"c","o","s","t">>, <<"h","o","w"," ","m","u","c","h">> >>
stock_words == << <<"s","t","o","c","k">>, <<"a","v","a","i","l","a","b","l","e">>, <<"a","v","a","i","l","a","b","i","l","i","t","y">> >>
status_words == << <<"s","t","a","t","u","s">>, <<"w","h","e","r","e"," ","i","s">>, <<"t","r","a","c","k","i","n","g">> >>
urgent_words == << <<"u","r","g","e","n","t">>, <<"a","s","a","p">>, <<"r","u","s","h">> >>
flexible_words == << <<"n","e","x","t"," ","w","e","e","k">>, <<"n","o"," ","r","u","s","h">> >>

product_keywords ==
    << [keyword |-> <<"c","e","i","l","i","n","g"," ","f","a","n">>, category |-> <<"C","e","i","l","i","n","g"," ","F","a","n","s">>],
       [keyword |-> <<"f","a","n">>, category |-> <<"C","e","i","l","i","n","g"," ","F","a","n","s">>],
       [keyword |-> <<"h","o","o","d">>, category |-> <<"R","a","n","g","e"," ","H","o","o","d","s">>],
       [keyword |-> <<"c","h","i","m","n","e","y">>, category |-> <<"R","a","n","g","e"," ","H","o","o","d","s">>],
       [keyword |-> <<"h","o","b">>, category |-> <<"H","o","b","s"," ","&"," ","S","t","o","v","e","s">>],
       [keyword |-> <<"s","t","o","v","e">>, category |-> <<"H","o","b","s"," ","&"," ","S","t","o","v","e","s">>],
       [keyword |-> <<"t","a","p">>, category |-> <<"K","i","t","c","h","e","n"," ","T","a","p","s">>],
       [keyword |-> <<"s","i","n","k">>, category |-> <<"K","i","t","c","h","e","n"," ","S","i","n","k","s">>],
       [keyword |-> <<"d","r","i","l","l">>, category |-> <<"P","o","w","e","r"," ","T","o","o","l","s">>],
       [keyword |-> <<"p","o","w","e","r"," ","t","o","o","l">>, category |-> <<"P","o","w","e","r"," ","T","o","o","l","s">>] >>

brands ==
    << <<"a","c","o","r","n">>,
       <<"s","p","i","n">>,
       <<"f","a","n","c","o">>,
       <<"c","r","e","s","t","a","r">>,
       <<"t","e","c","n","o">>,
       <<"e","f">>,
       <<"p","o","z","z","i">>,
       <<"w","o","r","x">>,
       <<"m","a","k","i","t","a">>,
       <<"a","l","a","s","k","a">> >>

sg_areas ==
    << <<"h","o","u","g","a","n","g">>,
       <<"k","o","v","a","n">>,
       <<"m","a","c","p","h","e","r","s","o","n">>,
       <<"b","e","d","o","k">>,
       <<"t","a","m","p","i","n","e","s">>,
       <<"j","u","r","o","n","g">>,
       <<"w","o","o","d","l","a","n","d","s">>,
       <<"y","i","s","h","u","n">> >>

\* the first element of a keyword list that occurs in the text, as <<e>>, or <<>>
FirstIn(text, list) ==
    LET hits == {i \in 1..Len(list) : Contains(text, list[i])}
    IN  IF hits = {} THEN <<>> ELSE <<list[CHOOSE i \in hits : \A j \in hits : i <= j]>>

_generate_clarification_questions(products, quantity) ==
    (IF products = <<>> THEN <<"which_products">>
     ELSE IF ~TruthyStr(products[1].product_name) THEN <<"which_model">>
     ELSE <<>>)
    \o (IF quantity = None THEN <<"how_many_units">> ELSE <<>>)

\* the response dictionary of the deterministic pattern matcher
_pattern_match(message) ==
    LET message_lower == Lower(message)
        intent_type ==
            IF ContainsAny(message_lower, price_words) THEN "price_check"
            ELSE IF ContainsAny(message_lower, stock_words) THEN "stock_check"
            ELSE IF ContainsAny(message_lower, status_words) THEN "order_status"
            ELSE "order_inquiry"
        brandHit == FirstIn(message_lower, brands)
        detected_brand == IF brandHit = <<>> THEN None ELSE Some(Title(brandHit[1]))
        kwHit == FirstIn(message_lower, [i \in 1..Len(product_keywords) |->
                                            product_keywords[i].keyword])
        detected_category ==
            IF kwHit = <<>> THEN None
            ELSE Some(product_keywords[CHOOSE i \in 1..Len(product_keywords) :
                          product_keywords[i].keyword = kwHit[1]].category)
        quantity == FirstNumber(message_lower)
        products ==
            IF detected_category /= None \/ detected_brand /= None
            THEN << [raw_text     |-> message,
                     product_name |-> None,
                     quantity     |-> quantity,
                     brand        |-> detected_brand,
                     category     |-> detected_category,
                     confidence   |-> Frac(6, 10)] >>
            ELSE <<>>
        urgency ==
            IF ContainsAny(message_lower, urgent_words) THEN Some("urgent")
            ELSE IF ContainsAny(message_lower, flexible_words) THEN Some("flexible")
            ELSE None
        areaHit == FirstIn(message_lower, sg_areas)
        address == IF areaHit = <<>> THEN None ELSE Some(Title(areaHit[1]))
    IN  [intent_type             |-> intent_type,
         products                |-> products,
         delivery                |-> Some([address |-> address, urgency |-> urgency,
                                           notes |-> None]),
         confidence_score        |-> Frac(5, 10),
         needs_clarification     |-> (products = <<>> \/ quantity = None),
         clarification_questions |-> _generate_clarification_questions(products, quantity)]

\* dict.get(key, default) on a response object
Get(r, key, default) == IF key \in DOMAIN r THEN r[key] ELSE default

\* _parse_response: the ParsedIntent built field by field with defaults;
\* IntentType(...) raises ValueError on an unknown intent_type
_parse_response(response) ==
    LET intent_type == Get(response, "intent_type", "unclear")
        delivery_data == Get(response, "delivery", None)
    IN  IF intent_type \notin IntentTypes THEN [raised |-> TRUE]
        ELSE [raised |-> FALSE,
              intent |->
                [intent_type             |-> intent_type,
                 products                |->
                     [i \in 1..Len(Get(response, "products", <<>>)) |->
                         LET p == response.products[i]
                         IN  [raw_text     |-> Get(p, "raw_text", <<>>),
                              product_name |-> Get(p, "product_name", None),
                              quantity     |-> Get(p, "quantity", None),
                              brand        |-> Get(p, "brand", None),
                              category     |-> Get(p, "category", None),
                              confidence   |-> Get(p, "confidence", Frac(5, 10))]],
                 delivery                |->
                     IF delivery_data = None THEN None
                     ELSE Some([address |-> Get(delivery_data[1], "address", None),
                                urgency |-> Get(delivery_data[1], "urgency", None),
                                notes   |-> Get(delivery_data[1], "notes", None)]),
                 confidence_score        |-> Get(response, "confidence_score", Frac(5, 10)),
                 needs_clarification     |-> Get(response, "needs_clarification", FALSE),
                 clarification_questions |-> Get(response, "clarification_questions", <<>>)]]

_fallback_parse(message) == _parse_response(_pattern_match(message)).intent

_empty_intent ==
    [intent_type             |-> "unclear",
     products                |-> <<>>,
     delivery                |-> None,
     confidence_score        |-> Zero,
     needs_clarification     |-> TRUE,
     clarification_questions |-> <<"describe_request">>]

\* `not message or not message.strip()`
IsBlank(message) == Strip(message) = <<>>

\* the try block of parse once the completion call has ended: llm is
\* [raised |-> TRUE] (the call raised) or [raised |-> FALSE, response |-> r];
\* the value is [raised |-> TRUE] when the call or _parse_response raised
TryParse(llm) == IF llm.raised THEN [raised |-> TRUE] ELSE _parse_response(llm.response)

\* the try block without an injected client: _call_llm returns
\* _pattern_match(message), which _parse_response turns into what
\* _fallback_parse(message) returns
NoClient(fallback) == [raised |-> FALSE, intent |-> fallback]

\* IntentParser.parse: tried is the value of the try block and fallback the
\* value of _fallback_parse(message)
parse(message, tried, fallback) ==
    IF IsBlank(message) THEN _empty_intent
    ELSE IF tried.raised THEN fallback
    ELSE tried.intent

(***************************************************************************)
(* OrderExtractor (ai/order_extractor.py).  Money is in cents.             *)
(***************************************************************************)
\* DEFAULT_TAX_RATE = 0.09, in percent
DEFAULT_TAX_RATE == 9
\* FREE_SHIPPING_THRESHOLD = 500.0
FREE_SHIPPING_THRESHOLD == 50000
\* DEFAULT_SHIPPING = 50.0
DEFAULT_SHIPPING == 5000

UNMATCHED == <<"U","N","M","A","T","C","H","E","D">>
NOT_FOUND_NOTE ==
    <<"P","r","o","d","u","c","t"," ","n","o","t"," ","f","o","u","n","d"," ","i","n"," ","c","a","t","a","l","o",
      "g"," ","-"," ","r","e","q","u","i","r","e","s"," ","m","a","n","u","a","l"," ","m","a","t","c","h","i","n","g">>
LOW_CONFIDENCE == Frac(7, 10)

\* round(n/d) to the nearest integer, ties to even, for n >= 0 and d > 0
RoundHalfEven(n, d) ==
    LET q == n \div d
        r == n % d
    IN  IF 2 * r < d THEN q
        ELSE IF 2 * r > d THEN q + 1
        ELSE IF q % 2 = 0 THEN q ELSE q + 1

\* round(f, 2) of a fraction
Round2(f) == Frac(RoundHalfEven(100 * f.num, f.den), 100)

\* _find_best_match: [raised |-> TRUE] is the AttributeError of None.lower()
RECURSIVE BestOf(_, _, _, _, _, _)
BestOf(products, n, intent_brand, intent_category, best_match, best_score) ==
    IF n > Len(products) THEN [raised |-> FALSE, match |-> best_match]
    ELSE
    LET product == products[n]
        brandHit == intent_brand /= <<>> /\ Contains(Lower(product.name), intent_brand)
        s1 == IF brandHit THEN FracAdd(product.match_score, Frac(2, 10))
              ELSE product.match_score
    IN  IF intent_category /= <<>> /\ product.category = None
        THEN [raised |-> TRUE, match |-> None]
        ELSE
        LET catHit == intent_category /= <<>> /\ intent_category = Lower(product.category[1])
            score  == IF catHit THEN FracAdd(s1, Frac(1, 10)) ELSE s1
        IN  IF FracLess(best_score, score)
            THEN BestOf(products, n + 1, intent_brand, intent_category, Some(product), score)
            ELSE BestOf(products, n + 1, intent_brand, intent_category, best_match, best_score)

_find_best_match(intent, matched_products) ==
    IF intent.brand = None \/ intent.category = None
    THEN [raised |-> TRUE, match |-> None]
    ELSE BestOf(matched_products, 1, Lower(intent.brand[1]), Lower(intent.category[1]),
                None, Zero)

\* `intent.get('quantity', 1) or 1`
QuantityOf(intent) ==
    IF intent.quantity = None \/ intent.quantity[1] = 0 THEN 1 ELSE intent.quantity[1]

\* the candidate _extract_items resolves for mention i (1-based)
ResolveMatch(product_intents, matched_products, i) ==
    IF i <= Len(matched_products) THEN [raised |-> FALSE, match |-> Some(matched_products[i])]
    ELSE IF matched_products /= <<>>
    THEN _find_best_match(product_intents[i], matched_products)
    ELSE [raised |-> FALSE, match |-> None]

\* OrderItem as it would be if the placeholder line took the default confidence
\* 0.5 of a candidate without a score
OrderItem_placeholder_half_confident(intent, matched) ==
    IF matched /= None
    THEN [product_id       |-> matched[1].product_id,
          product_name     |-> matched[1].clean_name,
          quantity         |-> QuantityOf(intent),
          unit_price       |-> matched[1].price,
          total_price      |-> matched[1].price * QuantityOf(intent),
          brand            |-> matched[1].brand,
          category         |-> matched[1].category,
          notes            |-> intent.raw_text,
          match_confidence |-> matched[1].match_score]
    ELSE [product_id       |-> UNMATCHED,
          product_name     |-> intent.raw_text,
          quantity         |-> QuantityOf(intent),
          unit_price       |-> 0,
          total_price      |-> 0,
          brand            |-> intent.brand,
          category         |-> intent.category,
          notes            |-> NOT_FOUND_NOTE,
          match_confidence |-> Frac(1, 2)]

\* the OrderItem _extract_items appends for a mention: lines 178-203
OrderItem(intent, matched) ==
    IF matched /= None
    THEN [product_id       |-> matched[1].product_id,
          product_name     |-> matched[1].clean_name,
          quantity         |-> QuantityOf(intent),
          unit_price       |-> matched[1].price,
          total_price      |-> matched[1].price * QuantityOf(intent),
          brand            |-> matched[1].brand,
          category         |-> matched[1].category,
          notes            |-> intent.raw_text,
          match_confidence |-> matched[1].match_score]
    ELSE [product_id       |-> UNMATCHED,
          product_name     |-> intent.raw_text,
          quantity         |-> QuantityOf(intent),
          unit_price       |-> 0,
          total_price      |-> 0,
          brand            |-> intent.brand,
          category         |-> intent.category,
          notes            |-> NOT_FOUND_NOTE,
          match_confidence |-> Zero]

\* _extract_items: [raised |-> TRUE] when _find_best_match raises for a mention
_extract_items(parsed_intent, matched_products) ==
    LET product_intents == parsed_intent.products
        res == [i \in 1..Len(product_intents) |->
                   ResolveMatch(product_intents, matched_products, i)]
    IN  IF \E i \in 1..Len(product_intents) : res[i].raised
        THEN [raised |-> TRUE, items |-> <<>>]
        ELSE [raised |-> FALSE,
              items  |-> [i \in 1..Len(product_intents) |->
                             OrderItem(product_intents[i], res[i].match)]]

RECURSIVE SumTotals(_)
SumTotals(items) ==
    IF items = <<>> THEN 0 ELSE items[1].total_price + SumTotals(Tail(items))

\* _calculate_summary: each of the four values is rounded on its own
_calculate_summary(items) ==
    LET subtotal == SumTotals(items)
        shipping == IF subtotal >= FREE_SHIPPING_THRESHOLD THEN 0 ELSE DEFAULT_SHIPPING
    IN  [subtotal |-> subtotal,
         discount |-> 0,
         tax      |-> RoundHalfEven(subtotal * DEFAULT_TAX_RATE, 100),
         shipping |-> shipping,
         total    |-> RoundHalfEven(100 * subtotal + subtotal * DEFAULT_TAX_RATE
                                        + 100 * shipping, 100)]

\* _extract_delivery: None unless the intent carries a non-empty address
_extract_delivery(parsed_intent) ==
    IF parsed_intent.delivery = None \/ ~TruthyStr(parsed_intent.delivery[1].address)
    THEN None
    ELSE Some([address      |-> parsed_intent.delivery[1].address[1],
               instructions |-> parsed_intent.delivery[1].notes,
               notes        |-> None])

RECURSIVE SumConfidence(_)
SumConfidence(items) ==
    IF items = <<>> THEN Zero
    ELSE FracAdd(items[1].match_confidence, SumConfidence(Tail(items)))

_calculate_confidence(parsed_intent, items) ==
    IF items = <<>> THEN Zero
    ELSE Round2(FracAdd(FracMul(FracMul(SumConfidence(items), Frac(1, Len(items))),
                                Frac(6, 10)),
                        FracMul(parsed_intent.confidence_score, Frac(4, 10))))

\* _check_confirmation_needs as it would be without the test of lines 311-314
\* for matches of low confidence
_check_confirmation_needs_ignores_low_confidence(parsed_intent, items, delivery) ==
    LET IsUnmatched(item) == item.product_id = UNMATCHED
        NoQty(item) == item.quantity <= 0
        unmatched == Cardinality({i \in 1..Len(items) : IsUnmatched(items[i])})
        missing_qty == Cardinality({i \in 1..Len(items) : NoQty(items[i])})
    IN  [needs_confirmation |->
            \/ unmatched > 0
            \/ missing_qty > 0
            \/ delivery = None
            \/ parsed_intent.needs_clarification,
         notes |->
            (IF unmatched > 0 THEN <<"unmatched_products">> ELSE <<>>)
            \o (IF missing_qty > 0 THEN <<"missing_quantities">> ELSE <<>>)
            \o (IF delivery = None THEN <<"delivery_address_required">> ELSE <<>>)
            \o (IF parsed_intent.needs_clarification
                THEN parsed_intent.clarification_questions ELSE <<>>)]

\* _check_confirmation_needs: (needs_confirmation, notes)
_check_confirmation_needs(parsed_intent, items, delivery) ==
    LET IsUnmatched(item) == item.product_id = UNMATCHED
        IsLow(item) == FracLess(item.match_confidence, LOW_CONFIDENCE)
                       /\ item.product_id /= UNMATCHED
        NoQty(item) == item.quantity <= 0
        unmatched == Cardinality({i \in 1..Len(items) : IsUnmatched(items[i])})
        low_confidence == Cardinality({i \in 1..Len(items) : IsLow(items[i])})
        missing_qty == Cardinality({i \in 1..Len(items) : NoQty(items[i])})
    IN  [needs_confirmation |->
            \/ unmatched > 0
            \/ low_confidence > 0
            \/ missing_qty > 0
            \/ delivery = None
            \/ parsed_intent.needs_clarification,
         notes |->
            (IF unmatched > 0 THEN <<"unmatched_products">> ELSE <<>>)
            \o (IF low_confidence > 0 THEN <<"low_match_confidence">> ELSE <<>>)
            \o (IF missing_qty > 0 THEN <<"missing_quantities">> ELSE <<>>)
            \o (IF delivery = None THEN <<"delivery_address_required">> ELSE <<>>)
            \o (IF parsed_intent.needs_clarification
                THEN parsed_intent.clarification_questions ELSE <<>>)]

\* OrderExtractor.extract followed by to_dict; order_id is what
\* _generate_order_id returned.  [raised |-> TRUE] when _extract_items raises.
extract(parsed_intent, matched_products, order_id) ==
    LET got == _extract_items(parsed_intent, matched_products)
        items == got.items
        delivery == _extract_delivery(parsed_intent)
        needs == _check_confirmation_needs(parsed_intent, items, delivery)
    IN  IF got.raised THEN [raised |-> TRUE]
        ELSE [raised |-> FALSE,
              order  |-> [order_id           |-> order_id,
                          items              |-> items,
                          summary            |-> _calculate_summary(items),
                          delivery           |-> delivery,
                          confidence_score   |-> _calculate_confidence(parsed_intent, items),
                          needs_confirmation |-> needs.needs_confirmation,
                          confirmation_notes |-> needs.notes,
                          status             |-> "draft"]]

\* apply_discount on the dictionary of an order; discount_percent is a
\* fraction.  discount_amount is not rounded before it is used: with
\* discount_amount = n/d cents, the stored discount, tax and total are each
\* the rounding of their own exact value
apply_discount(order, discount_percent) ==
    LET subtotal == order.summary.subtotal
        shipping == order.summary.shipping
        \* discount_amount = subtotal * (discount_percent / 100) = n / d
        amount == Frac(subtotal * discount_percent.num, 100 * discount_percent.den)
        n == amount.num
        d == amount.den
        \* subtotal - discount_amount = rest / d
        rest == subtotal * d - n
    IN  [order EXCEPT !.summary =
            [subtotal |-> subtotal,
             discount |-> RoundHalfEven(n, d),
             tax      |-> RoundHalfEven(rest * DEFAULT_TAX_RATE, d * 100),
             shipping |-> shipping,
             total    |-> RoundHalfEven(100 * rest + rest * DEFAULT_TAX_RATE
                                            + 100 * d * shipping, d * 100)]]

(***************************************************************************)
(* Inputs of the model.                                                    *)
(***************************************************************************)
mEmpty == <<>>
mYes == <<" ","Y","E","S"," ">>
mOrder == <<"2"," ","a","c","o","r","n"," ","f","a","n"," ","b","e","d","o","k">>
mStatus == <<"s","t","a","t","u","s">>
mModify == <<"m","o","d","i","f","y">>
mNo == <<"n","o">>
mSelectP1 == <<"p","r","o","d","u","c","t","_","p","1">>
mSelectDoubled == <<"p","r","o","d","u","c","t","_","p","r","o","d","u","c","t","_","p","1">>
mTwo == <<" ","2"," ">>
mZero == <<"0">>
mMinusOne == <<"-","1">>

\* the inbound message texts
Msgs ==
    {mEmpty, mYes, mOrder, mStatus, mModify, mNo, mSelectP1, mSelectDoubled,
     mTwo, mZero, mMinusOne}

\* the session keys that receive messages
Keys == {"k1"}

\* the catalogs a ProductMatcher is loaded with
Catalog ==
    << [item_id |-> <<"p","1">>, name |-> <<"A","c","o","r","n"," ","F","a","n">>,
        clean_name |-> <<"A","c","o","r","n"," ","F","a","n">>, price |-> 19900],
       [item_id |-> <<"p","2">>, name |-> <<"P","o","z","z","i"," ","T","a","p">>,
        clean_name |-> <<"P","o","z","z","i"," ","T","a","p">>, price |-> 8000] >>
Catalogs == {<<>>, Catalog}

\* what awaiting the completion service can end with: an exception, or a
\* JSON object (a field that is absent is absent from the record)
LLMRaises == [raised |-> TRUE]
LLMReturns(r) == [raised |-> FALSE, response |-> r]
TwoMentionsNoHints ==
    [intent_type |-> "order_inquiry",
     products    |-> << [raw_text |-> <<"z","z">>],
                        [raw_text |-> <<"a","c","o","r","n"," ","f","a","n">>, quantity |-> <<2>>] >>,
     delivery    |-> Some([address |-> Some(<<"B","e","d","o","k">>)])]
TwoMentionsHinted ==
    [intent_type |-> "order_inquiry",
     products    |-> << [raw_text |-> <<"z","z">>, brand |-> Some(<<"S","p","i","n">>),
                         category |-> Some(<<"R","a","n","g","e"," ","H","o","o","d","s">>)],
                        [raw_text |-> <<"a","c","o","r","n"," ","f","a","n">>, brand |-> Some(<<"A","c","o","r","n">>),
                         category |-> Some(<<"C","e","i","l","i","n","g"," ","F","a","n","s">>), quantity |-> <<3>>] >>,
     needs_clarification |-> TRUE,
     clarification_questions |-> <<"which_model">>]
PriceCheckWithAddress ==
    [intent_type |-> "price_check",
     products    |-> << [raw_text |-> <<"a","c","o","r","n"," ","f","a","n">>, brand |-> Some(<<"A","c","o","r","n">>),
                         category |-> Some(<<"C","e","i","l","i","n","g"," ","F","a","n","s">>), quantity |-> <<3>>] >>,
     delivery    |-> Some([address |-> Some(<<"B","e","d","o","k">>)]),
     confidence_score |-> Frac(9, 10)]
LLMOutcomes ==
    {LLMRaises,
     LLMReturns([intent_type |-> "unclear"]),
     LLMReturns([intent_type |-> "order_status", products |-> <<>>]),
     LLMReturns([intent_type |-> "order"]),
     LLMReturns(TwoMentionsNoHints),
     LLMReturns(TwoMentionsHinted),
     LLMReturns(PriceCheckWithAddress)}

\* what _generate_order_id can return
OrderIds == 1..NumOrderIds

PRODUCT_PREFIX == <<"p","r","o","d","u","c","t","_">>

\* the product a message selects: startswith("product_"), replace("product_", "")
\* and get_product_by_id; None when the message selects nothing
SelectedProduct(message, cat) ==
    IF StartsWith(message, PRODUCT_PREFIX)
    THEN get_product_by_id(cat, ReplaceAll(message, PRODUCT_PREFIX))
    ELSE None

\* `if result.matches: matched_products.append(result.matches[0])`
BestMatch(result) == IF result.matches /= <<>> THEN <<result.matches[1]>> ELSE <<>>

\* the best match of every mention that has one, in mention order
RECURSIVE MatchMentions(_, _)
MatchMentions(cat, products) ==
    IF products = <<>> THEN <<>>
    ELSE BestMatch(match(cat, products[1].raw_text, products[1].brand,
                         products[1].category, 3, DEFAULT_MIN_SCORE))
         \o MatchMentions(cat, Tail(products))

(***************************************************************************)
(* parse, match and extract are pure functions.  Computed(c) holds their   *)
(* values on the inputs of the model for a matcher loaded with catalog c;  *)
(* the state machine keeps it in `computed` and the handlers read the      *)
(* values off it.                                                          *)
(***************************************************************************)
InquiryValues(c, parsed_intent, matched_products) ==
    [\* lines 175-190 of _handle_new_inquiry
     matched_products |-> matched_products,
     \* lines 192-198 of _handle_new_inquiry, for every order id
     extracted        |-> [id \in OrderIds |-> extract(parsed_intent, matched_products, id)]]

Computed(c) ==
    LET fallback == [m \in Msgs |-> _fallback_parse(m)]
        tried    == [o \in LLMOutcomes |-> TryParse(o)]
        intents  == {_empty_intent} \cup {fallback[m] : m \in Msgs}
                    \cup {tried[o].intent : o \in {x \in LLMOutcomes : ~tried[x].raised}}
    IN  [\* _fallback_parse(message)
         Fallback      |-> fallback,
         \* the try block of parse when the completion call ended with outcome o
         Tried         |-> tried,
         \* the matching and the extraction _handle_new_inquiry does for an intent
         Inquiry       |-> [p \in intents |-> InquiryValues(c, p, MatchMentions(c, p.products))],
         \* matcher.match(message, max_results=5) of _handle_product_selection
         SearchResults |-> [m \in Msgs |->
                               match(c, m, None, None, 5, DEFAULT_MIN_SCORE)],
         \* the product a message selects in _handle_product_selection
         Selected      |-> [m \in Msgs |-> SelectedProduct(m, c)]]

(***************************************************************************)
(* MessageHandler (whatsapp/message_handler.py): the handlers as functions *)
(* from (context, message) to [context, response].                         *)
(***************************************************************************)
IDLE == "idle"
AWAITING_INQUIRY == "awaiting_inquiry"
PROCESSING == "processing"
AWAITING_PRODUCT_SELECTION == "awaiting_product_selection"
AWAITING_QUANTITY == "awaiting_quantity"
AWAITING_CONFIRMATION == "awaiting_confirmation"
AWAITING_DELIVERY_INFO == "awaiting_delivery_info"
ORDER_CONFIRMED == "order_confirmed"
COMPLETED == "completed"

ConversationState ==
    {IDLE, AWAITING_INQUIRY, PROCESSING, AWAITING_PRODUCT_SELECTION, AWAITING_QUANTITY,
     AWAITING_CONFIRMATION, AWAITING_DELIVERY_INFO, ORDER_CONFIRMED, COMPLETED}

\* ConversationContext(phone_number, state=IDLE)
NewContext ==
    [state            |-> IDLE,
     parsed_intent    |-> None,
     matched_products |-> None,
     extracted_order  |-> None,
     pending_items    |-> None]

ConfirmButtons == <<"confirm_order", "modify_order", "cancel_order">>
CheckoutButtons == <<"add_more", "checkout", "cancel_order">>

SendText(prompt) ==
    [action |-> "send_text", prompt |-> prompt, buttons |-> <<>>, order |-> None,
     products |-> <<>>]
SendInteractive(prompt, buttons) ==
    [action |-> "send_interactive", prompt |-> prompt, buttons |-> buttons, order |-> None,
     products |-> <<>>]
SendProducts(ids) ==
    [action |-> "send_products", prompt |-> "search_results", buttons |-> <<>>,
     order |-> None, products |-> ids]
OrderConfirmed(order) ==
    [action |-> "order_confirmed", prompt |-> "order_confirmed", buttons |-> <<>>,
     order |-> Some(order), products |-> <<>>]
\* the handler ended with an exception instead of a response
Raised ==
    [action |-> "raised", prompt |-> "exception", buttons |-> <<>>, order |-> None,
     products |-> <<>>]

\* _handle_new_inquiry after `await self.intent_parser.parse(message)` returned
\* parsed: lines 153-231
InquiryAfterParse(context, parsed, values, order_id) ==
    LET c1 == [context EXCEPT !.parsed_intent = Some(parsed)]
    IN  IF parsed.intent_type = "unclear"
        THEN [context  |-> [c1 EXCEPT !.state = AWAITING_INQUIRY],
              response |-> SendText("onboarding")]
        ELSE IF parsed.intent_type = "order_status"
        THEN [context |-> c1, response |-> SendText("provide_order_number")]
        ELSE
        LET matched_products == values.Inquiry[parsed].matched_products
            c2  == [c1 EXCEPT !.matched_products = Some(matched_products)]
            got == values.Inquiry[parsed].extracted[order_id]
        IN  IF got.raised THEN [context |-> c2, response |-> Raised]
            ELSE [context  |-> [c2 EXCEPT !.extracted_order = Some(got.order),
                                          !.state = AWAITING_CONFIRMATION],
                  response |->
                      IF got.order.needs_confirmation /\ got.order.confirmation_notes /= <<>>
                      THEN SendInteractive("order_summary_with_notes", ConfirmButtons)
                      ELSE SendInteractive("order_summary", ConfirmButtons)]

\* line 149 as it would be if it announced the confirmation before the order
\* is assembled
InquiryBeforeParse_awaits_confirmation(context) ==
    [context EXCEPT !.state = AWAITING_CONFIRMATION]

\* _handle_new_inquiry up to the await: line 149
InquiryBeforeParse(context) == [context EXCEPT !.state = PROCESSING]

_handle_product_selection(context, message, values) ==
    LET product == values.Selected[message]
        result  == values.SearchResults[message]
        pending == IF context.pending_items = None THEN <<>> ELSE context.pending_items[1]
    IN  IF product /= None
        THEN [context  |-> [context EXCEPT
                              !.state = AWAITING_QUANTITY,
                              !.pending_items =
                                  Some(Append(pending, [product  |-> product[1],
                                                        quantity |-> None]))],
              response |-> SendText("how_many_units")]
        ELSE IF result.matches /= <<>>
        THEN [context  |-> context,
              response |-> SendProducts([i \in 1..Len(result.matches) |->
                                            result.matches[i].product_id])]
        ELSE [context |-> context, response |-> SendText("not_found")]

\* _handle_quantity_input as it would be if it rejected only negative numbers
_handle_quantity_input_allows_zero(context, message) ==
    LET quantity == ParseInt(message)
        pending  == context.pending_items
    IN  IF quantity.ok /\ quantity.val >= 0
        THEN [context  |-> [context EXCEPT
                              !.state = AWAITING_CONFIRMATION,
                              !.pending_items =
                                  IF pending /= None /\ pending[1] /= <<>>
                                  THEN Some([pending[1] EXCEPT
                                                ![Len(pending[1])].quantity = Some(quantity.val)])
                                  ELSE pending],
              response |-> SendInteractive("added_units", CheckoutButtons)]
        ELSE [context |-> context, response |-> SendText("invalid_quantity")]

_handle_quantity_input(context, message) ==
    LET quantity == ParseInt(message)
        pending  == context.pending_items
    IN  IF quantity.ok /\ quantity.val > 0
        THEN [context  |-> [context EXCEPT
                              !.state = AWAITING_CONFIRMATION,
                              !.pending_items =
                                  IF pending /= None /\ pending[1] /= <<>>
                                  THEN Some([pending[1] EXCEPT
                                                ![Len(pending[1])].quantity = Some(quantity.val)])
                                  ELSE pending],
              response |-> SendInteractive("added_units", CheckoutButtons)]
        ELSE [context |-> context, response |-> SendText("invalid_quantity")]

CONFIRM_WORDS == { <<"c","o","n","f","i","r","m","_","o","r","d","e","r">>, <<"y","e","s">>, <<"c","o","n","f","i","r","m">>, <<"p","r","o","c","e","e","d">> }
MODIFY_WORDS == { <<"m","o","d","i","f","y","_","o","r","d","e","r">>, <<"m","o","d","i","f","y">>, <<"c","h","a","n","g","e">> }
CANCEL_WORDS == { <<"c","a","n","c","e","l","_","o","r","d","e","r">>, <<"c","a","n","c","e","l">>, <<"n","o">> }
ADD_MORE_WORDS == { <<"a","d","d","_","m","o","r","e">> }
CHECKOUT_WORDS == { <<"c","h","e","c","k","o","u","t">> }

\* _handle_confirmation as it would be without the test of line 320: a confirm
\* word confirms the order whether or not it has delivery info
_handle_confirmation_without_delivery_check(context, message) ==
    LET message_lower == Strip(Lower(message))
    IN  IF message_lower \in CONFIRM_WORDS
        THEN IF context.extracted_order = None
             THEN [context |-> context, response |-> Raised]
             ELSE [context  |-> [context EXCEPT !.state = ORDER_CONFIRMED],
                   response |-> OrderConfirmed(context.extracted_order[1])]
        ELSE IF message_lower \in MODIFY_WORDS
        THEN [context  |-> [context EXCEPT !.state = AWAITING_PRODUCT_SELECTION],
              response |-> SendText("what_to_change")]
        ELSE IF message_lower \in CANCEL_WORDS
        THEN [context  |-> [context EXCEPT !.state = IDLE,
                                           !.extracted_order = None,
                                           !.matched_products = None],
              response |-> SendText("order_cancelled")]
        ELSE IF message_lower \in ADD_MORE_WORDS
        THEN [context  |-> [context EXCEPT !.state = AWAITING_PRODUCT_SELECTION],
              response |-> SendText("what_to_add")]
        ELSE IF message_lower \in CHECKOUT_WORDS
        THEN [context  |-> [context EXCEPT !.state = AWAITING_DELIVERY_INFO],
              response |-> SendText("delivery_details")]
        ELSE [context |-> context, response |-> SendInteractive("select_option", ConfirmButtons)]

\* _handle_confirmation as it would be if it compared the message as typed,
\* without lower() and strip()
_handle_confirmation_exact_match(context, message) ==
    LET message_lower == message
    IN  IF message_lower \in CONFIRM_WORDS
        THEN IF context.extracted_order = None
             THEN [context |-> context, response |-> Raised]
             ELSE IF context.extracted_order[1].delivery = None
             THEN [context  |-> [context EXCEPT !.state = AWAITING_DELIVERY_INFO],
                   response |-> SendText("delivery_request")]
             ELSE [context  |-> [context EXCEPT !.state = ORDER_CONFIRMED],
                   response |-> OrderConfirmed(context.extracted_order[1])]
        ELSE IF message_lower \in MODIFY_WORDS
        THEN [context  |-> [context EXCEPT !.state = AWAITING_PRODUCT_SELECTION],
              response |-> SendText("what_to_change")]
        ELSE IF message_lower \in CANCEL_WORDS
        THEN [context  |-> [context EXCEPT !.state = IDLE,
                                           !.extracted_order = None,
                                           !.matched_products = None],
              response |-> SendText("order_cancelled")]
        ELSE IF message_lower \in ADD_MORE_WORDS
        THEN [context  |-> [context EXCEPT !.state = AWAITING_PRODUCT_SELECTION],
              response |-> SendText("what_to_add")]
        ELSE IF message_lower \in CHECKOUT_WORDS
        THEN [context  |-> [context EXCEPT !.state = AWAITING_DELIVERY_INFO],
              response |-> SendText("delivery_details")]
        ELSE [context |-> context, response |-> SendInteractive("select_option", ConfirmButtons)]

\* _handle_confirmation as it would be if a cancel word left matched_products
\* in the session
_handle_confirmation_keeps_candidates(context, message) ==
    LET message_lower == Strip(Lower(message))
    IN  IF message_lower \in CONFIRM_WORDS
        THEN IF context.extracted_order = None
             THEN [context |-> context, response |-> Raised]
             ELSE IF context.extracted_order[1].delivery = None
             THEN [context  |-> [context EXCEPT !.state = AWAITING_DELIVERY_INFO],
                   response |-> SendText("delivery_request")]
             ELSE [context  |-> [context EXCEPT !.state = ORDER_CONFIRMED],
                   response |-> OrderConfirmed(context.extracted_order[1])]
        ELSE IF message_lower \in MODIFY_WORDS
        THEN [context  |-> [context EXCEPT !.state = AWAITING_PRODUCT_SELECTION],
              response |-> SendText("what_to_change")]
        ELSE IF message_lower \in CANCEL_WORDS
        THEN [context  |-> [context EXCEPT !.state = IDLE,
                                           !.extracted_order = None],
              response |-> SendText("order_cancelled")]
        ELSE IF message_lower \in ADD_MORE_WORDS
        THEN [context  |-> [context EXCEPT !.state = AWAITING_PRODUCT_SELECTION],
              response |-> SendText("what_to_add")]
        ELSE IF message_lower \in CHECKOUT_WORDS
        THEN [context  |-> [context EXCEPT !.state = AWAITING_DELIVERY_INFO],
              response |-> SendText("delivery_details")]
        ELSE [context |-> context, response |-> SendInteractive("select_option", ConfirmButtons)]

_handle_confirmation(context, message) ==
    LET message_lower == Strip(Lower(message))
    IN  IF message_lower \in CONFIRM_WORDS
        THEN IF context.extracted_order = None
             THEN [context |-> context, response |-> Raised]
             ELSE IF context.extracted_order[1].delivery = None
             THEN [context  |-> [context EXCEPT !.state = AWAITING_DELIVERY_INFO],
                   response |-> SendText("delivery_request")]
             ELSE [context  |-> [context EXCEPT !.state = ORDER_CONFIRMED],
                   response |-> OrderConfirmed(context.extracted_order[1])]
        ELSE IF message_lower \in MODIFY_WORDS
        THEN [context  |-> [context EXCEPT !.state = AWAITING_PRODUCT_SELECTION],
              response |-> SendText("what_to_change")]
        ELSE IF message_lower \in CANCEL_WORDS
        THEN [context  |-> [context EXCEPT !.state = IDLE,
                                           !.extracted_order = None,
                                           !.matched_products = None],
              response |-> SendText("order_cancelled")]
        ELSE IF message_lower \in ADD_MORE_WORDS
        THEN [context  |-> [context EXCEPT !.state = AWAITING_PRODUCT_SELECTION],
              response |-> SendText("what_to_add")]
        ELSE IF message_lower \in CHECKOUT_WORDS
        THEN [context  |-> [context EXCEPT !.state = AWAITING_DELIVERY_INFO],
              response |-> SendText("delivery_details")]
        ELSE [context |-> context, response |-> SendInteractive("select_option", ConfirmButtons)]

\* _handle_delivery_info as it would be if storing the address also changed the
\* status of the order
_handle_delivery_info_marks_confirmed(context, message) ==
    IF context.extracted_order = None
    THEN \* _build_order_summary_from_dict(None) raises after the state was set
         [context  |-> [context EXCEPT !.state = AWAITING_CONFIRMATION],
          response |-> Raised]
    ELSE [context  |-> [context EXCEPT
                          !.state = AWAITING_CONFIRMATION,
                          !.extracted_order =
                              Some([context.extracted_order[1] EXCEPT
                                       !.status = "confirmed",
                                       !.delivery = Some([address      |-> message,
                                                          instructions |-> None,
                                                          notes        |-> Some(message)])])],
          response |-> SendInteractive("final_order_summary", ConfirmButtons)]

_handle_delivery_info(context, message) ==
    IF context.extracted_order = None
    THEN \* _build_order_summary_from_dict(None) raises after the state was set
         [context  |-> [context EXCEPT !.state = AWAITING_CONFIRMATION],
          response |-> Raised]
    ELSE [context  |-> [context EXCEPT
                          !.state = AWAITING_CONFIRMATION,
                          !.extracted_order =
                              Some([context.extracted_order[1] EXCEPT
                                       !.delivery = Some([address      |-> message,
                                                          instructions |-> None,
                                                          notes        |-> Some(message)])])],
          response |-> SendInteractive("final_order_summary", ConfirmButtons)]

(***************************************************************************)
(* The state machine.                                                      *)
(***************************************************************************)
VARIABLES
    catalog,        \* ProductMatcher.catalog
    computed,       \* Computed(catalog)
    llm_client,     \* whether IntentParser has a completion client injected
    conversations,  \* MessageHandler.conversations: key -> ConversationContext
    inflight,       \* the handle_message calls suspended in `await parse(...)`
    last,           \* what the handle_message call that returned in this step did
    call            \* the last direct call of a parser, matcher or extractor method

vars == <<catalog, computed, llm_client, conversations, inflight, last, call>>

NoReturn ==
    [key |-> "none", from |-> "none", live |-> TRUE, message |-> None, intent_type |-> "none",
     response |-> [action |-> "none", prompt |-> "none", buttons |-> <<>>,
                   order |-> None, products |-> <<>>]]

\* live: the context the call worked on is the one the session map holds
Returned(k, from, live, message, intent_type, response) ==
    [key |-> k, from |-> from, live |-> live, message |-> message,
     intent_type |-> intent_type, response |-> response]

\* no method has been called directly
NoCall == [fn |-> "none"]

Init ==
    /\ catalog \in Catalogs
    /\ computed = Computed(catalog)
    /\ llm_client \in BOOLEAN
    /\ conversations = <<>>
    /\ inflight = <<>>
    /\ last = NoReturn
    /\ call = NoCall

_get_or_create_context_starts_awaiting(k) ==
    IF k \in DOMAIN conversations THEN conversations[k]
    ELSE [NewContext EXCEPT !.state = AWAITING_INQUIRY]

\* _get_or_create_context
_get_or_create_context(k) ==
    IF k \in DOMAIN conversations THEN conversations[k] ELSE NewContext

Store_for_every_key(k, context) ==
    [j \in DOMAIN conversations \cup {k} |-> context]

\* self.conversations[k] holds the context the call worked on
Store(k, context) ==
    [j \in DOMAIN conversations \cup {k} |-> IF j = k THEN context ELSE conversations[j]]

\* the states handle_message routes to _handle_new_inquiry
RoutesToInquiry_only_named(state) ==
    state \in {IDLE, AWAITING_INQUIRY}

\* the states handle_message routes to _handle_new_inquiry: IDLE, AWAITING_INQUIRY
\* and, by the final else, every state without a handler of its own
RoutesToInquiry(state) ==
    state \notin {AWAITING_PRODUCT_SELECTION, AWAITING_QUANTITY, AWAITING_CONFIRMATION,
                  AWAITING_DELIVERY_INFO}

\* handle_message -> _handle_new_inquiry, when parse does not suspend (no
\* completion client, or a blank message)
NewInquiry(k, m, order_id) ==
    LET context == _get_or_create_context(k)
        parsed  == parse(m, NoClient(computed.Fallback[m]), computed.Fallback[m])
        r       == InquiryAfterParse(InquiryBeforeParse(context), parsed, computed, order_id)
    IN  /\ RoutesToInquiry(context.state)
        /\ ~llm_client \/ IsBlank(m)
        /\ conversations' = Store(k, r.context)
        /\ last' = Returned(k, context.state, TRUE, None, parsed.intent_type, r.response)
        /\ UNCHANGED <<call, catalog, computed, llm_client, inflight>>

\* handle_message -> _handle_new_inquiry up to the await of the completion call
NewInquiryBegin(k, m) ==
    LET context == _get_or_create_context(k)
    IN  /\ RoutesToInquiry(context.state)
        /\ llm_client /\ ~IsBlank(m)
        /\ Len(inflight) < MaxInflight
        /\ conversations' = Store(k, InquiryBeforeParse(context))
        /\ inflight' = Append(inflight, [key |-> k, message |-> m, from |-> context.state,
                                        live |-> TRUE])
        /\ last' = NoReturn
        /\ UNCHANGED <<call, catalog, computed, llm_client>>

RemoveAt(s, i) == SubSeq(s, 1, i - 1) \o SubSeq(s, i + 1, Len(s))

\* the completion call of suspended handler i ends and the handler runs to its
\* return; a handler whose context was reset writes to an object no longer in
\* the session map
NewInquiryResume(i, outcome, order_id) ==
    LET h      == inflight[i]
        parsed == parse(h.message, computed.Tried[outcome], computed.Fallback[h.message])
        r      == InquiryAfterParse(IF h.live THEN conversations[h.key] ELSE NewContext,
                                    parsed, computed, order_id)
    IN  /\ conversations' = IF h.live THEN Store(h.key, r.context) ELSE conversations
        /\ inflight' = RemoveAt(inflight, i)
        /\ last' = Returned(h.key, h.from, h.live, None, parsed.intent_type, r.response)
        /\ UNCHANGED <<call, catalog, computed, llm_client>>

PendingCount(context) ==
    IF context.pending_items = None THEN 0 ELSE Len(context.pending_items[1])

\* handle_message -> _handle_product_selection
ProductSelection(k, m) ==
    LET context == _get_or_create_context(k)
        r       == _handle_product_selection(context, m, computed)
    IN  /\ context.state = AWAITING_PRODUCT_SELECTION
        /\ PendingCount(r.context) <= MaxPending
        /\ conversations' = Store(k, r.context)
        /\ last' = Returned(k, context.state, TRUE, Some(m), "none", r.response)
        /\ UNCHANGED <<call, catalog, computed, llm_client, inflight>>

\* handle_message -> _handle_quantity_input
QuantityInput(k, m) ==
    LET context == _get_or_create_context(k)
        r       == _handle_quantity_input(context, m)
    IN  /\ context.state = AWAITING_QUANTITY
        /\ conversations' = Store(k, r.context)
        /\ last' = Returned(k, context.state, TRUE, Some(m), "none", r.response)
        /\ UNCHANGED <<call, catalog, computed, llm_client, inflight>>

\* handle_message -> _handle_confirmation
Confirmation(k, m) ==
    LET context == _get_or_create_context(k)
        r       == _handle_confirmation(context, m)
    IN  /\ context.state = AWAITING_CONFIRMATION
        /\ conversations' = Store(k, r.context)
        /\ last' = Returned(k, context.state, TRUE, Some(m), "none", r.response)
        /\ UNCHANGED <<call, catalog, computed, llm_client, inflight>>

\* handle_message -> _handle_delivery_info
DeliveryInfo(k, m) ==
    LET context == _get_or_create_context(k)
        r       == _handle_delivery_info(context, m)
    IN  /\ context.state = AWAITING_DELIVERY_INFO
        /\ conversations' = Store(k, r.context)
        /\ last' = Returned(k, context.state, TRUE, Some(m), "none", r.response)
        /\ UNCHANGED <<call, catalog, computed, llm_client, inflight>>

\* reset_context: the session is deleted; handlers suspended on it keep the
\* deleted object
reset_context(k) ==
    /\ conversations' = [j \in DOMAIN conversations \ {k} |-> conversations[j]]
    /\ inflight' = [i \in 1..Len(inflight) |->
                       IF inflight[i].key = k THEN [inflight[i] EXCEPT !.live = FALSE]
                       ELSE inflight[i]]
    /\ last' = NoReturn
    /\ UNCHANGED <<call, catalog, computed, llm_client>>

Next ==
    \/ \E k \in Keys, m \in Msgs, order_id \in OrderIds : NewInquiry(k, m, order_id)
    \/ \E k \in Keys, m \in Msgs : NewInquiryBegin(k, m)
    \/ \E i \in 1..Len(inflight), outcome \in LLMOutcomes, order_id \in OrderIds :
           NewInquiryResume(i, outcome, order_id)
    \/ \E k \in Keys, m \in Msgs : ProductSelection(k, m)
    \/ \E k \in Keys, m \in Msgs : QuantityInput(k, m)
    \/ \E k \in Keys, m \in Msgs : Confirmation(k, m)
    \/ \E k \in Keys, m \in Msgs : DeliveryInfo(k, m)
    \/ \E k \in Keys : reset_context(k)

Spec == Init /\ [][Next]_vars

\* the handler keeps receiving messages: some call or reset always follows
FairSpec == Spec /\ WF_vars(Next)

(***************************************************************************)
(* The handler serving two keys.  The calls are the same; the messages are *)
(* the ones that take a session through every handler, and the completion  *)
(* service answers every call with the same order.                         *)
(***************************************************************************)
TwoKeys == {"k1", "k2"}
FewMsgs == {mOrder, mYes, mModify, mSelectP1}

NextTwoKeys ==
    \/ \E k \in TwoKeys, m \in FewMsgs, order_id \in OrderIds : NewInquiry(k, m, order_id)
    \/ \E k \in TwoKeys, m \in FewMsgs : NewInquiryBegin(k, m)
    \/ \E i \in 1..Len(inflight), order_id \in OrderIds :
           NewInquiryResume(i, LLMReturns(TwoMentionsHinted), order_id)
    \/ \E k \in TwoKeys, m \in FewMsgs : ProductSelection(k, m)
    \/ \E k \in TwoKeys, m \in FewMsgs : QuantityInput(k, m)
    \/ \E k \in TwoKeys, m \in FewMsgs : Confirmation(k, m)
    \/ \E k \in TwoKeys, m \in FewMsgs : DeliveryInfo(k, m)
    \/ \E k \in TwoKeys : reset_context(k)

SpecTwoKeys == Init /\ [][NextTwoKeys]_vars

(***************************************************************************)
(* The methods of IntentParser, OrderExtractor and ProductMatcher called   *)
(* directly, on inputs drawn from the sets below; `call` records the       *)
(* arguments and the value of the last call.  parse, extract, match and    *)
(* _score_product read nothing a previous call wrote, so each is called    *)
(* once, on the objects as constructed; apply_discount is called any       *)
(* number of times on the order extract returned.                          *)
(***************************************************************************)
MaxResults == 2

\* a response whose clarification_questions is a string instead of a list of
\* strings: _parse_response reads it with response.get and checks no type
QuestionsAsText ==
    [intent_type |-> "order_inquiry", clarification_questions |-> <<"w","h","y">>]
\* a response with a negative quantity
NegativeQuantity ==
    [intent_type |-> "order_inquiry",
     products    |-> << [raw_text |-> <<"a","c","o","r","n"," ","f","a","n">>, brand |-> Some(<<"A","c","o","r","n">>),
                         category |-> Some(<<"C","e","i","l","i","n","g"," ","F","a","n","s">>), quantity |-> <<-1>>] >>,
     delivery    |-> Some([address |-> Some(<<"B","e","d","o","k">>)])]
ParseOutcomes == LLMOutcomes \cup {LLMReturns(QuestionsAsText), LLMReturns(NegativeQuantity)}

\* the intents extract is called with: what parse returns on the inputs
ExtractIntents ==
    {parse(m, IF client THEN TryParse(o) ELSE NoClient(_fallback_parse(m)), _fallback_parse(m)) :
        <<m, o, client>> \in Msgs \X ParseOutcomes \X BOOLEAN}

\* the candidate lists extract is called with for an intent: none, what the
\* matcher finds for its mentions, one candidate the matcher scored 0.5
MatchedLists(parsed_intent) ==
    {<<>>, MatchMentions(Catalog, parsed_intent.products),
     <<_to_matched_product(Catalog[2], Frac(1, 2))>>}

\* a catalog with two records of the same name
TieCatalog ==
    Catalog \o << [item_id |-> <<"p","3">>, name |-> <<"A","c","o","r","n"," ","F","a","n">>,
                   clean_name |-> <<"A","c","o","r","n"," ","F","a","n">>, price |-> 21000] >>
Queries == {<<>>, <<"f","a","n">>, <<"z","z">>, <<"A","c","o","r","n"," ","F","a","n">>, mOrder}
BrandHints == {None, Some(<<"A","c","o","r","n">>), Some(<<"P","o","z","z","i">>)}
CategoryHints == {None, Some(<<"C","e","i","l","i","n","g"," ","F","a","n","s">>)}

\* IntentParser.parse(message), the completion call ending with outcome
ParseCall(message, outcome, client) ==
    /\ call = NoCall
    /\ call' = [fn |-> "parse", message |-> message, outcome |-> outcome, client |-> client,
                result |-> parse(message,
                                 IF client THEN TryParse(outcome)
                                 ELSE NoClient(_fallback_parse(message)),
                                 _fallback_parse(message))]
    /\ UNCHANGED <<catalog, computed, llm_client, conversations, inflight, last>>

\* OrderExtractor.extract(parsed_intent, matched_products, raw_message)
ExtractCall(parsed_intent, matched_products, order_id) ==
    /\ call = NoCall
    /\ call' = [fn |-> "extract", parsed_intent |-> parsed_intent,
                matched_products |-> matched_products,
                result |-> extract(parsed_intent, matched_products, order_id)]
    /\ UNCHANGED <<catalog, computed, llm_client, conversations, inflight, last>>

\* OrderExtractor.apply_discount on the order of the last call
DiscountCall(discount_percent) ==
    /\ \/ call.fn = "extract" /\ ~call.result.raised
       \/ call.fn = "apply_discount"
    /\ call' = [fn |-> "apply_discount", discount_percent |-> discount_percent,
                result |-> [raised |-> FALSE,
                            order  |-> apply_discount(call.result.order, discount_percent)]]
    /\ UNCHANGED <<catalog, computed, llm_client, conversations, inflight, last>>

\* ProductMatcher.match on a matcher loaded with catalog cat
MatchCall(cat, query, brand, category, max_results, min_score) ==
    /\ call = NoCall
    /\ call' = [fn |-> "match", cat |-> cat, query |-> query, brand |-> brand,
                category |-> category, max_results |-> max_results, min_score |-> min_score,
                result |-> match(cat, query, brand, category, max_results, min_score)]
    /\ UNCHANGED <<catalog, computed, llm_client, conversations, inflight, last>>

\* ProductMatcher._score_product, the hints given by the caller
ScoreCall(product, query, brand, category) ==
    /\ call = NoCall
    /\ call' = [fn |-> "_score_product", product |-> product, query |-> query,
                brand |-> brand, category |-> category,
                result |-> _score_product(product, query, brand, category)]
    /\ UNCHANGED <<catalog, computed, llm_client, conversations, inflight, last>>

InitCalls ==
    /\ Init
    /\ catalog = <<>>
    /\ ~llm_client

NextCalls ==
    \/ \E message \in Msgs, outcome \in ParseOutcomes, client \in BOOLEAN :
           ParseCall(message, outcome, client)
    \/ \E parsed_intent \in ExtractIntents, order_id \in OrderIds :
           \E matched_products \in MatchedLists(parsed_intent) :
               ExtractCall(parsed_intent, matched_products, order_id)
    \* discounts of 0, 1.7, 10 and 100 percent
    \/ \E discount_percent \in {Frac(0, 1), Frac(17, 10), Frac(10, 1), Frac(100, 1)} :
           DiscountCall(discount_percent)
    \/ \E cat \in Catalogs \cup {TieCatalog}, query \in Queries, brand \in BrandHints,
          category \in CategoryHints, max_results \in 0..MaxResults,
          min_score \in {Zero, DEFAULT_MIN_SCORE, Frac(9, 10)} :
           MatchCall(cat, query, brand, category, max_results, min_score)
    \/ \E product \in {Catalog[i] : i \in 1..Len(Catalog)}, query \in Queries,
          brand \in BrandHints, category \in CategoryHints :
           ScoreCall(product, Strip(Lower(query)), brand, category)

SpecCalls == InitCalls /\ [][NextCalls]_vars

(***************************************************************************)
(* The claims.  `last` is the handle_message call that returned in the     *)
(* step; a claim about what a step changes compares the session before     *)
(* the step (unprimed) with the session after it (primed).                 *)
(***************************************************************************)

\* C1: in every reachable state, a session whose state is ORDER_CONFIRMED has
\* a draft order, and that order's delivery info is present
C1_ConfirmedHasDelivery ==
    \A k \in DOMAIN conversations :
        conversations[k].state = ORDER_CONFIRMED =>
            /\ conversations[k].extracted_order /= None
            /\ conversations[k].extracted_order[1].delivery /= None

\* a confirm word has just moved a session to ORDER_CONFIRMED
C1_Witness ==
    /\ last.response.action = "order_confirmed"
    /\ last.key \in DOMAIN conversations
    /\ conversations[last.key].state = ORDER_CONFIRMED

\* C2: the handling cycles of one session key never overlap: no
\* handle_message call for a key runs to its return on the session while
\* another call for that key is still suspended on it
C2_NoOverlap ==
    \A i \in 1..Len(inflight) :
        (inflight[i].live /\ last.live) => last.key /= inflight[i].key

\* C3: whatever the session state, the message, the parsed intent and the
\* catalog, a handle_message call returns an action and never raises
C3_NeverRaises == last.response.action /= "raised"

\* C4: a message handled in IDLE or AWAITING_INQUIRY ends in AWAITING_INQUIRY
\* with the text onboarding prompt when the intent kind is unclear; for every
\* kind other than unclear and order_status it ends in AWAITING_CONFIRMATION
\* with a draft order stored and an interactive prompt whose options are
\* exactly confirm_order, modify_order, cancel_order
C4_InquiryOutcome ==
    (/\ last.from \in {IDLE, AWAITING_INQUIRY}
     /\ last.intent_type /= "none"
     /\ last.live
     /\ last.key \in DOMAIN conversations)
    => LET context == conversations[last.key]
       IN  IF last.intent_type = "unclear"
           THEN /\ context.state = AWAITING_INQUIRY
                /\ last.response = SendText("onboarding")
           ELSE IF last.intent_type = "order_status" THEN TRUE
           ELSE /\ context.state = AWAITING_CONFIRMATION
                /\ context.extracted_order /= None
                /\ last.response.action = "send_interactive"
                /\ last.response.buttons = <<"confirm_order", "modify_order", "cancel_order">>

\* C5: a message handled in IDLE or AWAITING_INQUIRY whose intent kind is
\* order_status leaves the session state as it was before the message and
\* emits the provide-order-number text prompt
C5_StatusStays ==
    (/\ last.from \in {IDLE, AWAITING_INQUIRY}
     /\ last.intent_type = "order_status"
     /\ last.live
     /\ last.key \in DOMAIN conversations)
    => /\ conversations[last.key].state = last.from
       /\ last.response = SendText("provide_order_number")

\* C6: in AWAITING_CONFIRMATION a message that, lowercased and trimmed, is one
\* of confirm_order, yes, confirm, proceed moves the session to
\* AWAITING_DELIVERY_INFO with the delivery-request prompt when the draft order
\* has no delivery info, and otherwise to ORDER_CONFIRMED with an
\* order_confirmed action that carries the draft order and its order id
C6_ConfirmMoves ==
    [][\A k \in DOMAIN conversations :
         (/\ conversations[k].state = AWAITING_CONFIRMATION
          /\ last'.key = k
          /\ last'.message /= None
          /\ Strip(Lower(last'.message[1])) \in
                 { <<"c","o","n","f","i","r","m","_","o","r","d","e","r">>, <<"y","e","s">>,
                   <<"c","o","n","f","i","r","m">>, <<"p","r","o","c","e","e","d">> })
         => LET order == conversations[k].extracted_order
            IN  /\ order /= None
                /\ k \in DOMAIN conversations'
                /\ conversations'[k].extracted_order = order
                /\ IF order[1].delivery = None
                   THEN /\ conversations'[k].state = AWAITING_DELIVERY_INFO
                        /\ last'.response = SendText("delivery_request")
                   ELSE /\ conversations'[k].state = ORDER_CONFIRMED
                        /\ last'.response.action = "order_confirmed"
                        /\ last'.response.order = order
                        /\ last'.response.order[1].order_id = order[1].order_id]_vars

\* " YES " has just moved a session whose order has no delivery info from
\* AWAITING_CONFIRMATION to AWAITING_DELIVERY_INFO
C6_Witness ==
    /\ last.from = AWAITING_CONFIRMATION
    /\ last.message = Some(mYes)
    /\ last.key \in DOMAIN conversations
    /\ conversations[last.key].state = AWAITING_DELIVERY_INFO
    /\ conversations[last.key].extracted_order /= None
    /\ conversations[last.key].extracted_order[1].delivery = None
    /\ last.response = SendText("delivery_request")

\* C7: in AWAITING_QUANTITY the session moves to AWAITING_CONFIRMATION, with
\* the quantity of the last pending item set and the add_more, checkout,
\* cancel_order prompt, exactly when the trimmed message is an integer greater
\* than 0; for every other message the state stays AWAITING_QUANTITY, pending
\* items and draft order are unchanged, and a re-prompt is emitted
C7_QuantityInput ==
    [][\A k \in DOMAIN conversations :
         (/\ conversations[k].state = AWAITING_QUANTITY
          /\ last'.key = k
          /\ last'.message /= None)
         => LET before   == conversations[k]
                after    == conversations'[k]
                quantity == ParseInt(last'.message[1])
            IN  /\ k \in DOMAIN conversations'
                /\ after.extracted_order = before.extracted_order
                /\ IF quantity.ok /\ quantity.val > 0
                   THEN /\ after.state = AWAITING_CONFIRMATION
                        /\ before.pending_items /= None
                        /\ before.pending_items[1] /= <<>>
                        /\ after.pending_items =
                               Some([before.pending_items[1] EXCEPT
                                        ![Len(before.pending_items[1])].quantity =
                                            Some(quantity.val)])
                        /\ last'.response.action = "send_interactive"
                        /\ last'.response.buttons = <<"add_more", "checkout", "cancel_order">>
                   ELSE /\ after.state = AWAITING_QUANTITY
                        /\ after.pending_items = before.pending_items
                        /\ last'.response = SendText("invalid_quantity")]_vars

\* " 2 " has just set the quantity of the last pending item to 2 and moved the
\* session from AWAITING_QUANTITY to AWAITING_CONFIRMATION
C7_Witness ==
    /\ last.from = AWAITING_QUANTITY
    /\ last.message = Some(mTwo)
    /\ last.key \in DOMAIN conversations
    /\ conversations[last.key].state = AWAITING_CONFIRMATION
    /\ conversations[last.key].pending_items /= None
    /\ conversations[last.key].pending_items[1] /= <<>>
    /\ LET pending == conversations[last.key].pending_items[1]
       IN  pending[Len(pending)].quantity = Some(2)

\* C8: in AWAITING_PRODUCT_SELECTION a message product_<id> whose id is the id
\* of a catalog record appends exactly one pending item with quantity unset
\* and moves the session to AWAITING_QUANTITY; any other message (free text, or
\* a token whose id is the id of no record) is a search query: it emits
\* product options or not-found and leaves state and pending items unchanged
C8_ProductSelection ==
    [][\A k \in DOMAIN conversations :
         (/\ conversations[k].state = AWAITING_PRODUCT_SELECTION
          /\ last'.key = k
          /\ last'.message /= None)
         => LET before  == conversations[k]
                after   == conversations'[k]
                message == last'.message[1]
                id      == SubSeq(message, Len(PRODUCT_PREFIX) + 1, Len(message))
                record  == get_product_by_id(catalog, id)
                pending == IF before.pending_items = None THEN <<>>
                           ELSE before.pending_items[1]
            IN  /\ k \in DOMAIN conversations'
                /\ IF StartsWith(message, PRODUCT_PREFIX) /\ record /= None
                   THEN /\ after.state = AWAITING_QUANTITY
                        /\ after.pending_items =
                               Some(Append(pending, [product |-> record[1], quantity |-> None]))
                   ELSE /\ after.state = AWAITING_PRODUCT_SELECTION
                        /\ after.pending_items = before.pending_items
                        /\ \/ last'.response.action = "send_products"
                           \/ last'.response = SendText("not_found")]_vars

\* C9: in AWAITING_CONFIRMATION a message that, lowercased and trimmed, is one
\* of cancel_order, cancel, no moves the session to IDLE, a state whose next
\* message starts a new inquiry, and clears the draft order and the matched
\* candidates
C9_CancelClears ==
    (/\ last.from = AWAITING_CONFIRMATION
     /\ last.message /= None
     /\ Strip(Lower(last.message[1])) \in
            { <<"c","a","n","c","e","l","_","o","r","d","e","r">>, <<"c","a","n","c","e","l">>,
              <<"n","o">> })
    => /\ last.key \in DOMAIN conversations
       /\ conversations[last.key].state = IDLE
       /\ RoutesToInquiry(conversations[last.key].state)
       /\ conversations[last.key].extracted_order = None
       /\ conversations[last.key].matched_products = None

\* "no" has just cancelled the order of a session in AWAITING_CONFIRMATION
C9_Witness ==
    /\ last.from = AWAITING_CONFIRMATION
    /\ last.message = Some(mNo)
    /\ last.response = SendText("order_cancelled")
    /\ last.key \in DOMAIN conversations
    /\ conversations[last.key].state = IDLE

\* C10: in AWAITING_DELIVERY_INFO any message text is stored as the delivery
\* address and notes of the draft order and the session moves to
\* AWAITING_CONFIRMATION with the interactive confirm, modify, cancel prompt;
\* no other field of the draft order changes
C10_DeliveryStored ==
    [][\A k \in DOMAIN conversations :
         (/\ conversations[k].state = AWAITING_DELIVERY_INFO
          /\ last'.key = k
          /\ last'.message /= None)
         => LET before == conversations[k].extracted_order
                after  == conversations'[k].extracted_order
            IN  /\ k \in DOMAIN conversations'
                /\ conversations'[k].state = AWAITING_CONFIRMATION
                /\ last'.response.action = "send_interactive"
                /\ last'.response.buttons = <<"confirm_order", "modify_order", "cancel_order">>
                /\ before /= None
                /\ after /= None
                /\ after[1].delivery /= None
                /\ after[1].delivery[1].address = last'.message[1]
                /\ after[1].delivery[1].notes = last'.message
                /\ \A f \in DOMAIN before[1] \ {"delivery"} : after[1][f] = before[1][f]
                /\ DOMAIN after[1] = DOMAIN before[1]]_vars

\* the text of a message has just been stored as the delivery address of an
\* order that has lines, and the session is back in AWAITING_CONFIRMATION
C10_Witness ==
    /\ last.from = AWAITING_DELIVERY_INFO
    /\ last.message /= None
    /\ last.key \in DOMAIN conversations
    /\ conversations[last.key].state = AWAITING_CONFIRMATION
    /\ conversations[last.key].extracted_order /= None
    /\ conversations[last.key].extracted_order[1].items /= <<>>
    /\ conversations[last.key].extracted_order[1].delivery /= None
    /\ conversations[last.key].extracted_order[1].delivery[1].address = last.message[1]

\* C15: for a non-empty message, when the completion call raises or returns
\* a response that does not have the ParsedIntent shape (an unknown intent
\* kind, a string where the list of clarification questions belongs), parse
\* returns exactly the intent of the pattern matcher for that message
C15_FallbackOnInvalid ==
    (/\ call.fn = "parse"
     /\ call.client
     /\ ~IsBlank(call.message)
     /\ \/ call.outcome.raised
        \/ call.outcome = LLMReturns([intent_type |-> "order"])
        \/ call.outcome = LLMReturns(QuestionsAsText))
    => call.result = _fallback_parse(call.message)

\* C17: after extract and after any sequence of apply_discount calls, the
\* stored totals satisfy total = subtotal - discount + tax + shipping
C17_TotalsAddUp ==
    (call.fn \in {"extract", "apply_discount"} /\ ~call.result.raised)
    => LET summary == call.result.order.summary
       IN  summary.total =
               summary.subtotal - summary.discount + summary.tax + summary.shipping

\* C18: the confidence of an order is round(0.6 * m + 0.4 * c, 2), c the
\* confidence of the parsed intent and m the mean match_confidence of the
\* lines, 0 when the order has no lines
C18_OrderConfidence ==
    (call.fn = "extract" /\ ~call.result.raised)
    => LET items == call.result.order.items
           m == IF items = <<>> THEN Zero
                ELSE FracMul(SumConfidence(items), Frac(1, Len(items)))
       IN  call.result.order.confidence_score =
               Round2(FracAdd(FracMul(Frac(6, 10), m),
                              FracMul(Frac(4, 10), call.parsed_intent.confidence_score)))

\* C20: in _score_product a brand hint whose lower-cased form is contained in
\* the raw name of the record adds exactly 0.2, and a category hint with a
\* keyword contained in the raw name adds exactly 0.1, each on its own and
\* before the cap at 1.0
C20_HintBonuses ==
    call.fn = "_score_product"
    => LET raw_name == Lower(call.product.name)
           brand_bonus ==
               IF call.brand /= None /\ Contains(raw_name, Lower(call.brand[1]))
               THEN Frac(2, 10) ELSE Zero
           category_bonus ==
               IF call.category /= None /\ ContainsAny(raw_name, KeywordsOf(call.category[1]))
               THEN Frac(1, 10) ELSE Zero
       IN  call.result =
               FracMin(FracAdd(FracAdd(NameTerm(call.product, call.query),
                                       WordTerm(call.product, call.query)),
                               FracAdd(brand_bonus, category_bonus)),
                       One)

\* C16: for every order extract produces, needs_confirmation is true exactly
\* when some line is UNMATCHED, or some line that is not UNMATCHED has
\* match_confidence < 0.7, or some line has quantity <= 0, or delivery is
\* absent, or the parsed intent has needs_clarification set
C16_NeedsConfirmation ==
    (call.fn = "extract" /\ ~call.result.raised)
    => LET order == call.result.order
           lines == {order.items[i] : i \in 1..Len(order.items)}
       IN  order.needs_confirmation <=>
               \/ \E line \in lines : line.product_id = <<"U","N","M","A","T","C","H","E","D">>
               \/ \E line \in lines :
                      /\ line.product_id /= <<"U","N","M","A","T","C","H","E","D">>
                      /\ FracLess(line.match_confidence, Frac(7, 10))
               \/ \E line \in lines : line.quantity <= 0
               \/ order.delivery = None
               \/ call.parsed_intent.needs_clarification

\* extract has produced an order that needs confirmation only because a line
\* was matched with confidence 0.5
C16_Witness ==
    /\ call.fn = "extract"
    /\ ~call.result.raised
    /\ call.result.order.needs_confirmation
    /\ call.result.order.items /= <<>>
    /\ \A i \in 1..Len(call.result.order.items) :
           /\ call.result.order.items[i].match_confidence = Frac(1, 2)
           /\ call.result.order.items[i].product_id /= UNMATCHED
           /\ call.result.order.items[i].quantity > 0
    /\ call.result.order.delivery /= None
    /\ ~call.parsed_intent.needs_clarification

C11_HandledAsInquiry ==
    \A k \in DOMAIN conversations :
        conversations[k].state \in {PROCESSING, ORDER_CONFIRMED, COMPLETED} =>
            \A m \in Msgs, order_id \in OrderIds :
                LET asInquiry == [conversations[k] EXCEPT !.state = AWAITING_INQUIRY]
                    parsed    == parse(m, NoClient(computed.Fallback[m]), computed.Fallback[m])
                    r         == InquiryAfterParse(InquiryBeforeParse(asInquiry), parsed,
                                                   computed, order_id)
                IN  IF ~llm_client \/ IsBlank(m)
                    THEN ENABLED (/\ NewInquiry(k, m, order_id)
                                  /\ conversations'[k] = r.context
                                  /\ last'.response = r.response)
                    ELSE Len(inflight) < MaxInflight =>
                             ENABLED (/\ NewInquiryBegin(k, m)
                                      /\ conversations'[k] = InquiryBeforeParse(asInquiry))

\* a message to a session whose order is confirmed was handled as an inquiry
\* and drafted the next order
C11_Witness ==
    /\ last.from = ORDER_CONFIRMED
    /\ last.live
    /\ last.key \in DOMAIN conversations
    /\ last.response.action /= "raised"
    /\ conversations[last.key].state = AWAITING_CONFIRMATION

\* C12: COMPLETED is the terminal state of the success path: a session whose
\* order has been confirmed (ORDER_CONFIRMED) goes on to COMPLETED
C12_ConfirmedCompletes ==
    \A k \in Keys :
        (k \in DOMAIN conversations /\ conversations[k].state = ORDER_CONFIRMED)
            ~> (k \in DOMAIN conversations /\ conversations[k].state = COMPLETED)

\* C13: the first message for a key without a session creates the session
\* and is dispatched from IDLE, on a context holding no draft order, no
\* candidates and no pending items; reset_context removes the session of its
\* key entirely, so that the next message for the key is such a first
\* message; reset_context for a key without a session changes nothing
C13_FreshSession ==
    [][\A k \in Keys :
         /\ (k \notin DOMAIN conversations /\ k \in DOMAIN conversations') =>
                \/ /\ last'.key = k
                    /\ last'.from = IDLE
                    /\ \E m \in Msgs, order_id \in OrderIds :
                           LET parsed == parse(m, NoClient(computed.Fallback[m]),
                                               computed.Fallback[m])
                               r      == InquiryAfterParse(InquiryBeforeParse(NewContext),
                                                           parsed, computed, order_id)
                           IN  /\ conversations'[k] = r.context
                               /\ last'.response = r.response
                \/ /\ Len(inflight') = Len(inflight) + 1
                    /\ inflight'[Len(inflight')].key = k
                    /\ inflight'[Len(inflight')].from = IDLE
                    /\ conversations'[k] = InquiryBeforeParse(NewContext)
         /\ reset_context(k) => k \notin DOMAIN conversations'
         /\ (reset_context(k) /\ k \notin DOMAIN conversations) =>
                UNCHANGED <<conversations, inflight>>
    ]_vars

\* the session of a key was reset while a call for it was suspended, and the
\* next message for the key was handled from a fresh IDLE session
C13_Witness ==
    /\ last.from = IDLE
    /\ last.key \in DOMAIN conversations
    /\ conversations[last.key].extracted_order = None
    /\ conversations[last.key].pending_items = None
    /\ \E i \in 1..Len(inflight) : inflight[i].key = last.key /\ ~inflight[i].live

\* C14: a call for key a (handle_message in any of its handlers, the end of
\* a suspended handle_message, reset_context) never creates, removes or
\* changes the session of another key b, whatever calls for b it is
\* interleaved with
C14_OtherSessionsUntouched ==
    [][\A a \in TwoKeys :
         (\/ \E m \in FewMsgs, order_id \in OrderIds : NewInquiry(a, m, order_id)
          \/ \E m \in FewMsgs :
                 \/ NewInquiryBegin(a, m)
                 \/ ProductSelection(a, m)
                 \/ QuantityInput(a, m)
                 \/ Confirmation(a, m)
                 \/ DeliveryInfo(a, m)
          \/ \E i \in 1..Len(inflight), order_id \in OrderIds :
                 /\ inflight[i].key = a
                 /\ NewInquiryResume(i, LLMReturns(TwoMentionsHinted), order_id)
          \/ reset_context(a))
         => \A b \in TwoKeys \ {a} :
                /\ b \in DOMAIN conversations' <=> b \in DOMAIN conversations
                /\ b \in DOMAIN conversations => conversations'[b] = conversations[b]
    ]_vars

\* a message for k2 was handled to a drafted order while a call for k1 was
\* suspended in parse, the session of k1 still as that call left it
C14_Witness ==
    /\ last.key = "k2"
    /\ "k2" \in DOMAIN conversations
    /\ conversations["k2"].state = AWAITING_CONFIRMATION
    /\ "k1" \in DOMAIN conversations
    /\ conversations["k1"].state = PROCESSING
    /\ \E i \in 1..Len(inflight) : inflight[i].key = "k1" /\ inflight[i].live

\* C21: extract returns an order for every parsed intent and every list of
\* candidates and never raises, also when there are more mentions than
\* candidates and the brand or category of a mention is null
C21_ExtractNeverRaises ==
    call.fn = "extract" => ~call.result.raised

\* C22: in extract, a mention with no candidate at its position and none
\* chosen by _find_best_match gives a line with product_id UNMATCHED, unit
\* price 0, line total 0, match_confidence 0 and the not-found note, and the
\* order then has needs_confirmation set
C22_UnmatchedPlaceholder ==
    (call.fn = "extract" /\ ~call.result.raised) =>
        \A i \in 1..Len(call.parsed_intent.products) :
            (/\ i > Len(call.matched_products)
             /\ \/ call.matched_products = <<>>
                \/ _find_best_match(call.parsed_intent.products[i],
                                    call.matched_products).match = None)
            => /\ call.result.order.items[i].product_id = UNMATCHED
               /\ call.result.order.items[i].unit_price = 0
               /\ call.result.order.items[i].total_price = 0
               /\ call.result.order.items[i].match_confidence = Zero
               /\ call.result.order.items[i].notes = NOT_FOUND_NOTE
               /\ call.result.order.needs_confirmation

\* extract was called with two mentions, an address and no candidate: both
\* lines are placeholders
C22_Witness ==
    /\ call.fn = "extract"
    /\ ~call.result.raised
    /\ call.matched_products = <<>>
    /\ Len(call.parsed_intent.products) = 2
    /\ ~call.parsed_intent.needs_clarification
    /\ call.result.order.delivery /= None
    /\ call.result.order.items[2].product_id = UNMATCHED
    /\ call.result.order.items[2].quantity = 2

\* C23: after a new inquiry with several mentions, every mention for which
\* the matcher found no candidate is a line with product_id UNMATCHED in the
\* draft order; it is not priced with the candidate of another mention
C23_NoMatchIsPlaceholder ==
    (/\ last.intent_type \notin {"none", "unclear", "order_status"}
     /\ last.live
     /\ last.response.action = "send_interactive"
     /\ Len(conversations[last.key].parsed_intent[1].products) > 1) =>
        LET products == conversations[last.key].parsed_intent[1].products
            items    == conversations[last.key].extracted_order[1].items
        IN  \A i \in 1..Len(products) :
                MatchMentions(catalog, <<products[i]>>) = <<>>
                    => items[i].product_id = UNMATCHED

\* C24: in AWAITING_CONFIRMATION a message that is none of the confirm,
\* modify, cancel, add_more and checkout words leaves the session as it is,
\* and the interactive prompt sent again offers the options of the choice
\* prompt the user was shown last (the response of the previous call)
C24_SamePromptAgain ==
    [][\A k \in Keys, m \in Msgs :
         (/\ Confirmation(k, m)
          /\ Strip(Lower(m)) \notin CONFIRM_WORDS \cup MODIFY_WORDS \cup CANCEL_WORDS
                                    \cup ADD_MORE_WORDS \cup CHECKOUT_WORDS
          /\ last.key = k
          /\ last.response.action = "send_interactive")
         => /\ conversations'[k] = conversations[k]
            /\ last'.response.action = "send_interactive"
            /\ last'.response.buttons = last.response.buttons
    ]_vars

\* C25: a product the buyer selected in AWAITING_PRODUCT_SELECTION and gave
\* a positive quantity in AWAITING_QUANTITY is a line with that quantity of
\* the order the order_confirmed action of the same cycle carries; checked
\* where the quantity was given in the call just before the confirming one
C25_SelectedIsOrdered ==
    [][\A k \in Keys :
         (/\ last.key = k
          /\ last.from = AWAITING_QUANTITY
          /\ last.response.prompt = "added_units"
          /\ last'.key = k
          /\ last'.response.action = "order_confirmed")
         => LET pending == conversations[k].pending_items[1]
                chosen  == pending[Len(pending)]
                items   == last'.response.order[1].items
            IN  \E i \in 1..Len(items) :
                    /\ items[i].product_id = chosen.product.product_id
                    /\ items[i].quantity = chosen.quantity[1]
    ]_vars

\* C26: from every reachable session some finite sequence of messages leads
\* to IDLE or ORDER_CONFIRMED; AWAITING_PRODUCT_SELECTION and
\* AWAITING_QUANTITY are no traps.  A session can only leave one of these two
\* states by a message its handler answers with a change of state, so some
\* message must do that
C26_NoTrap ==
    \A k \in DOMAIN conversations :
        /\ conversations[k].state = AWAITING_PRODUCT_SELECTION =>
               \E m \in Msgs :
                   _handle_product_selection(conversations[k], m, computed).context.state
                       /= AWAITING_PRODUCT_SELECTION
        /\ conversations[k].state = AWAITING_QUANTITY =>
               \E m \in Msgs :
                   _handle_quantity_input(conversations[k], m).context.state
                       /= AWAITING_QUANTITY

\* C27: the order an order_confirmed action carries has at least one line
C27_ConfirmedHasLines ==
    last.response.action = "order_confirmed"
        => last.response.order[1].items /= <<>>

\* C28: the order an order_confirmed action carries, which is the draft order
\* of the session, has status confirmed and needs_confirmation cleared
C28_ConfirmedOrderIsMarked ==
    last.response.action = "order_confirmed"
        => /\ last.response.order[1].status = "confirmed"
           /\ ~last.response.order[1].needs_confirmation
           /\ last.live => conversations[last.key].extracted_order = last.response.order

\* C29: the draft order of a session in ORDER_CONFIRMED has a delivery
\* address that is neither empty nor only whitespace
C29_ConfirmedAddressNotBlank ==
    \A k \in DOMAIN conversations :
        conversations[k].state = ORDER_CONFIRMED =>
            /\ conversations[k].extracted_order /= None
            /\ conversations[k].extracted_order[1].delivery /= None
            /\ ~IsBlank(conversations[k].extracted_order[1].delivery[1].address)

\* C30: whenever the state of a session is AWAITING_CONFIRMATION,
\* AWAITING_PRODUCT_SELECTION, AWAITING_QUANTITY, AWAITING_DELIVERY_INFO or
\* ORDER_CONFIRMED, the session has a draft order, so the confirmation and
\* delivery handlers never read a missing one
C30_DraftOrderPresent ==
    \A k \in DOMAIN conversations :
        conversations[k].state \in {AWAITING_CONFIRMATION, AWAITING_PRODUCT_SELECTION,
                                    AWAITING_QUANTITY, AWAITING_DELIVERY_INFO,
                                    ORDER_CONFIRMED}
            => conversations[k].extracted_order /= None

\* the delivery handler has just stored an address in the draft order of a
\* session that asked for it after a confirm word
C30_Witness ==
    /\ last.from = AWAITING_DELIVERY_INFO
    /\ last.response.prompt = "final_order_summary"
    /\ last.key \in DOMAIN conversations
    /\ conversations[last.key].state = AWAITING_CONFIRMATION
    /\ conversations[last.key].extracted_order /= None
    /\ conversations[last.key].extracted_order[1].delivery[1].address = last.message[1]
====
